---------------------------- MODULE Spec2Model ----------------------------
(***************************************************************************)
(* Model of MyExeServerPy/MyExeServerPy.py: a Python out-of-process COM    *)
(* server built on comtypes.  The module checks the comtypes version,      *)
(* loads the type library, defines the classes NumberCruncher and          *)
(* MyServerImpl and, when run as the main script, hands MyServerImpl to    *)
(* comtypes' UseCommandLine.  Clients then obtain MyServerImpl instances   *)
(* and call GetNumberCruncher, Subscribe, Unsubscribe and ComputePi, one   *)
(* Python statement at a time, in any interleaving.                        *)
(***************************************************************************)
EXTENDS Integers, Sequences, FiniteSets, TLC

(***************************************************************************)
(* Bounds of the model.                                                    *)
(***************************************************************************)
NumClients == 2
MaxObjects == 4

Clients == 1..NumClients
ObjIds  == 1..MaxObjects

(***************************************************************************)
(* Python values that cross the COM boundary.  3.14 is kept as a number    *)
(* of hundredths; an interface pointer names the object and the interface. *)
(***************************************************************************)
PiHundredths == 314

NoneValue == [kind |-> "None", hundredths |-> 0, obj |-> 0, iid |-> "-"]
FloatValue(h) == [kind |-> "float", hundredths |-> h, obj |-> 0, iid |-> "-"]
PointerValue(o, i) == [kind |-> "pointer", hundredths |-> 0, obj |-> o, iid |-> i]
NoInterface == [kind |-> "E_NOINTERFACE", hundredths |-> 0, obj |-> 0, iid |-> "-"]

(***************************************************************************)
(* Versions, as packaging.version.parse orders them: the release numbers   *)
(* with trailing zeros dropped, compared as Python tuples, and a           *)
(* pre-release before the final release of the same numbers.               *)
(***************************************************************************)
RECURSIVE SeqLess(_, _)
SeqLess(a, b) ==
    IF b = <<>> THEN FALSE
    ELSE IF a = <<>> THEN TRUE
    ELSE IF Head(a) # Head(b) THEN Head(a) < Head(b)
    ELSE SeqLess(Tail(a), Tail(b))

RECURSIVE StripZeros(_)
StripZeros(r) ==
    IF r # <<>> /\ r[Len(r)] = 0 THEN StripZeros(SubSeq(r, 1, Len(r) - 1)) ELSE r

Version(r, p) == [release |-> r, pre |-> p]

parse(v) == <<StripZeros(v.release), IF v.pre THEN 0 ELSE 1>>

(* The text of a version, character by character: a digit is its value,    *)
(* "." is -2 and the "rc" of a pre-release is 50, as "." < "0" < "r".      *)
Digits(n) == IF n < 10 THEN <<n>> ELSE <<n \div 10, n % 10>>

RECURSIVE Text(_)
Text(r) ==
    IF r = <<>> THEN <<>>
    ELSE IF Len(r) = 1 THEN Digits(r[1])
    ELSE Digits(r[1]) \o <<-2>> \o Text(Tail(r))

VersionText(v) == Text(v.release) \o (IF v.pre THEN <<50>> ELSE <<>>)

(* what comparing the version strings themselves would give *)
VersionLessAsText(v, w) == SeqLess(VersionText(v), VersionText(w))

VersionLess(v, w) ==
    LET kv == parse(v)
        kw == parse(w)
    IN  \/ SeqLess(kv[1], kw[1])
        \/ kv[1] = kw[1] /\ kv[2] < kw[2]

RequiredVersion == Version(<<1, 4, 9>>, FALSE)

(* the comtypes versions an installation may have *)
InstalledVersions ==
    { Version(<<0, 6, 2>>, FALSE), Version(<<1, 4>>, FALSE),
      Version(<<1, 4, 8>>, FALSE), Version(<<1, 4, 9>>, TRUE),
      Version(<<1, 4, 9>>, FALSE), Version(<<1, 4, 10>>, FALSE),
      Version(<<1, 5, 0>>, FALSE) }

(***************************************************************************)
(* The two classes of the module, with the attributes their bodies set.    *)
(***************************************************************************)
NumberCruncher ==
    [ name        |-> "NumberCruncher",
      interfaces  |-> {"INumberCruncher"},
      methods     |-> {"ComputePi"},
      has_clsid   |-> FALSE,
      threading   |-> "-",
      clsctx      |-> "-",
      regcls      |-> "-" ]

(* MyServerImpl with single-use class registration *)
MyServerImplSingleUse ==
    [ name        |-> "MyServerImpl",
      interfaces  |-> {"IMyServer"},
      methods     |-> {"GetNumberCruncher", "Subscribe", "Unsubscribe"},
      has_clsid   |-> TRUE,
      threading   |-> "Both",
      clsctx      |-> "CLSCTX_LOCAL_SERVER",
      regcls      |-> "REGCLS_SINGLEUSE" ]

(* The CLSID and the interfaces come from the type library's coclass       *)
(* MyInterfaces.MyServer, which MyServerImpl derives from.                 *)
MyServerImpl ==
    [ name        |-> "MyServerImpl",
      interfaces  |-> {"IMyServer"},
      methods     |-> {"GetNumberCruncher", "Subscribe", "Unsubscribe"},
      has_clsid   |-> TRUE,
      threading   |-> "Both",
      clsctx      |-> "CLSCTX_LOCAL_SERVER",
      regcls      |-> "REGCLS_MULTIPLEUSE" ]

VARIABLES
    pc,               \* position of the module's top-level code
    version,          \* comtypes.__version__
    isMain,           \* __name__ == "__main__"
    MyInterfaces,     \* number of GetModule calls that loaded the type library
    defined,          \* names of the classes the module has defined
    calls,            \* the UseCommandLine calls made: each the classes passed
    registry,         \* registry entries of COM classes
    classObjects,     \* class objects registered with the COM runtime
    heap,             \* the objects created, in creation order
    srv,              \* per client: its MyServerImpl instance (0: none)
    cruncher,         \* per client: the INumberCruncher pointer it holds
    frame,            \* per client: the method call in progress and its locals
    ret,              \* per client: what its last completed call returned
    returned          \* per object: times GetNumberCruncher has returned it

vars == <<pc, version, isMain, MyInterfaces, defined, calls, registry,
          classObjects, heap, srv, cruncher, frame, ret, returned>>

loadVars   == <<pc, version, isMain, MyInterfaces, defined, calls, registry,
                classObjects>>
serverVars == <<heap, returned>>
clientVars == <<srv, cruncher, frame, ret>>

RegistryEntry(cls) ==
    [ cls       |-> cls.name,
      key       |-> IF cls.clsctx = "CLSCTX_LOCAL_SERVER"
                    THEN "LocalServer32" ELSE "InprocServer32",
      threading |-> cls.threading ]

IdleFrame == [at |-> "idle", obj |-> 0]
NoReturn  == [method |-> "-", value |-> NoneValue, raised |-> FALSE]

Init ==
    /\ pc = "version_check"
    /\ version \in InstalledVersions
    /\ isMain \in BOOLEAN
    /\ MyInterfaces = 0
    /\ defined = {}
    /\ calls = <<>>
    /\ registry \in {{}, {RegistryEntry(MyServerImpl)}}
    /\ classObjects = {}
    /\ heap = <<>>
    /\ srv = [c \in Clients |-> 0]
    /\ cruncher = [c \in Clients |-> NoneValue]
    /\ frame = [c \in Clients |-> IdleFrame]
    /\ ret = [c \in Clients |-> NoReturn]
    /\ returned = [o \in ObjIds |-> 0]

(***************************************************************************)
(* The module's top-level code, one statement at a time.                   *)
(***************************************************************************)

(* lines 8-10: the comtypes version check *)
CheckVersion ==
    /\ pc = "version_check"
    /\ pc' = IF VersionLess(version, RequiredVersion)
             THEN "ImportError" ELSE "GetModule"
    /\ UNCHANGED <<version, isMain, MyInterfaces, defined, calls, registry,
                   classObjects, serverVars, clientVars>>

(* line 13: load the type library *)
GetModule ==
    /\ pc = "GetModule"
    /\ MyInterfaces' = MyInterfaces + 1
    /\ pc' = "class NumberCruncher"
    /\ UNCHANGED <<version, isMain, defined, calls, registry, classObjects,
                   serverVars, clientVars>>

(* lines 16-21 *)
DefineNumberCruncher ==
    /\ pc = "class NumberCruncher"
    /\ defined' = defined \cup {NumberCruncher.name}
    /\ pc' = "class MyServerImpl"
    /\ UNCHANGED <<version, isMain, MyInterfaces, calls, registry,
                   classObjects, serverVars, clientVars>>

(* lines 24-39 *)
DefineMyServerImpl ==
    /\ pc = "class MyServerImpl"
    /\ defined' = defined \cup {MyServerImpl.name}
    /\ pc' = "main guard"
    /\ UNCHANGED <<version, isMain, MyInterfaces, calls, registry,
                   classObjects, serverVars, clientVars>>

(* the module without its __main__ guard *)
MainGuardMissing ==
    /\ pc = "main guard"
    /\ pc' = "UseCommandLine"
    /\ UNCHANGED <<version, isMain, MyInterfaces, defined, calls, registry,
                   classObjects, serverVars, clientVars>>

(* line 42: if __name__ == "__main__"; an importer gets the module as is *)
MainGuard ==
    /\ pc = "main guard"
    /\ pc' = IF isMain THEN "UseCommandLine" ELSE "imported"
    /\ UNCHANGED <<version, isMain, MyInterfaces, defined, calls, registry,
                   classObjects, serverVars, clientVars>>

(* what sys.argv may ask of UseCommandLine; "usage" is no option at all *)
Options == {"usage", "regserver", "unregserver", "embedding"}

ClassObject(cls) ==
    [cls |-> cls.name, clsctx |-> cls.clsctx, regcls |-> cls.regcls]

(* comtypes.server.register.UseCommandLine, given some classes: with       *)
(* /regserver it writes the classes' registry entries, with /unregserver   *)
(* it deletes them, with -Embedding it registers their class objects and   *)
(* serves until the server quits; without an option it prints the usage.   *)
UseCommandLine(classes) ==
    /\ pc = "UseCommandLine"
    /\ calls' = Append(calls, {cls.name : cls \in classes})
    /\ \E opt \in Options :
        /\ registry' =
             CASE opt = "regserver" ->
                    registry \cup {RegistryEntry(cls) : cls \in classes}
               [] opt = "unregserver" ->
                    registry \ {RegistryEntry(cls) : cls \in classes}
               [] OTHER -> registry
        /\ classObjects' = IF opt = "embedding"
                           THEN {ClassObject(cls) : cls \in classes}
                           ELSE classObjects
        /\ pc' = IF opt = "embedding" THEN "serving" ELSE "exited"
    /\ UNCHANGED <<version, isMain, MyInterfaces, defined, serverVars,
                   clientVars>>

(* lines 43-44 *)
Main == UseCommandLine({MyServerImpl})

(* the message loop of the local server ends: the class objects are        *)
(* revoked and the script is over                                          *)
Quit ==
    /\ pc = "serving"
    /\ \A c \in Clients : frame[c].at = "idle"
    /\ classObjects' = {}
    /\ pc' = "exited"
    /\ UNCHANGED <<version, isMain, MyInterfaces, defined, calls, registry,
                   serverVars, clientVars>>

(***************************************************************************)
(* Objects and the calls of the clients.                                   *)
(***************************************************************************)
Alive == pc \in {"serving", "imported"}

NewObject(cls) == [cls |-> cls.name, interfaces |-> cls.interfaces, dict |-> {}]

(* COMObject.QueryInterface: a pointer to the object for an interface of   *)
(* its _com_interfaces_                                                    *)
QueryInterface(o, i) ==
    IF i \in heap[o].interfaces THEN PointerValue(o, i) ELSE NoInterface

Return(m, v) == [method |-> m, value |-> v, raised |-> v.kind = "E_NOINTERFACE"]

(* A client obtains a MyServerImpl instance: from the registered class     *)
(* object when the server runs, by calling the class when the module was   *)
(* imported.  A single-use class object serves one activation.             *)
Activate(c) ==
    /\ Alive
    /\ srv[c] = 0
    /\ Len(heap) < MaxObjects
    /\ IF pc = "serving"
       THEN \E co \in classObjects :
              /\ co.cls = MyServerImpl.name
              /\ classObjects' = IF co.regcls = "REGCLS_MULTIPLEUSE"
                                 THEN classObjects ELSE classObjects \ {co}
       ELSE UNCHANGED classObjects
    /\ heap' = Append(heap, NewObject(MyServerImpl))
    /\ srv' = [srv EXCEPT ![c] = Len(heap) + 1]
    /\ UNCHANGED <<pc, version, isMain, MyInterfaces, defined, calls, registry,
                   returned, cruncher, frame, ret>>

CanCall(c) == Alive /\ srv[c] # 0 /\ frame[c].at = "idle"

(* GetNumberCruncher that keeps one NumberCruncher and hands it out again *)
GetNumberCruncherCached(c) ==
    /\ CanCall(c)
    /\ LET old == {o \in 1..Len(heap) : heap[o].cls = NumberCruncher.name}
       IN  IF old # {}
           THEN /\ frame' = [frame EXCEPT ![c] =
                       [at |-> "line 33", obj |-> CHOOSE o \in old : TRUE]]
                /\ UNCHANGED heap
           ELSE /\ Len(heap) < MaxObjects
                /\ heap' = Append(heap, NewObject(NumberCruncher))
                /\ frame' = [frame EXCEPT ![c] =
                       [at |-> "line 33", obj |-> Len(heap) + 1]]
    /\ UNCHANGED <<loadVars, returned, srv, cruncher, ret>>

(* line 32: obj = NumberCruncher() *)
GetNumberCruncher(c) ==
    /\ CanCall(c)
    /\ Len(heap) < MaxObjects
    /\ heap' = Append(heap, NewObject(NumberCruncher))
    /\ frame' = [frame EXCEPT ![c] = [at |-> "line 33", obj |-> Len(heap) + 1]]
    /\ UNCHANGED <<loadVars, returned, srv, cruncher, ret>>

(* line 33 with obj a variable all calls share: the call returns the       *)
(* object of whichever call assigned it last                               *)
GetNumberCruncherReturnShared(c) ==
    /\ Alive
    /\ frame[c].at = "line 33"
    /\ \E d \in Clients :
        /\ frame[d].at = "line 33"
        /\ LET p == QueryInterface(frame[d].obj, "INumberCruncher")
           IN  /\ ret' = [ret EXCEPT ![c] = Return("GetNumberCruncher", p)]
               /\ cruncher' = [cruncher EXCEPT ![c] = p]
               /\ returned' = [returned EXCEPT ![frame[d].obj] = @ + 1]
    /\ frame' = [frame EXCEPT ![c] = IdleFrame]
    /\ UNCHANGED <<loadVars, heap, srv>>

(* line 33: return obj.QueryInterface(MyInterfaces.INumberCruncher); the   *)
(* client keeps the pointer it receives                                    *)
GetNumberCruncherReturn(c) ==
    /\ Alive
    /\ frame[c].at = "line 33"
    /\ LET p == QueryInterface(frame[c].obj, "INumberCruncher")
       IN  /\ ret' = [ret EXCEPT ![c] = Return("GetNumberCruncher", p)]
           /\ cruncher' = [cruncher EXCEPT ![c] =
                  IF p.kind = "pointer" THEN p ELSE @]
           /\ returned' = [returned EXCEPT ![frame[c].obj] = @ + 1]
    /\ frame' = [frame EXCEPT ![c] = IdleFrame]
    /\ UNCHANGED <<loadVars, heap, srv>>

(* Subscribe that records the client in the server object *)
SubscribeRecording(c, client) ==
    /\ CanCall(c)
    /\ heap' = [heap EXCEPT ![srv[c]].dict = @ \cup {client}]
    /\ ret' = [ret EXCEPT ![c] = Return("Subscribe", NoneValue)]
    /\ UNCHANGED <<loadVars, returned, srv, cruncher, frame>>

(* lines 35-36: pass *)
Subscribe(c, client) ==
    /\ CanCall(c)
    /\ ret' = [ret EXCEPT ![c] = Return("Subscribe", NoneValue)]
    /\ UNCHANGED <<loadVars, serverVars, srv, cruncher, frame>>

(* Unsubscribe that removes the client from a list of subscribers and      *)
(* raises when it is not there                                             *)
UnsubscribeRemoving(c, client) ==
    /\ CanCall(c)
    /\ heap' = [heap EXCEPT ![srv[c]].dict = @ \ {client}]
    /\ ret' = [ret EXCEPT ![c] =
           [method |-> "Unsubscribe", value |-> NoneValue,
            raised |-> client \notin heap[srv[c]].dict]]
    /\ UNCHANGED <<loadVars, returned, srv, cruncher, frame>>

(* lines 38-39: pass *)
Unsubscribe(c, client) ==
    /\ CanCall(c)
    /\ ret' = [ret EXCEPT ![c] = Return("Unsubscribe", NoneValue)]
    /\ UNCHANGED <<loadVars, serverVars, srv, cruncher, frame>>

HoldsCruncher(c) ==
    /\ cruncher[c].kind = "pointer"
    /\ "ComputePi" \in NumberCruncher.methods
    /\ heap[cruncher[c].obj].cls = NumberCruncher.name

(* ComputePi that returns the integer 3 *)
ComputePiTruncated(c) ==
    /\ Alive
    /\ frame[c].at = "idle"
    /\ HoldsCruncher(c)
    /\ ret' = [ret EXCEPT ![c] = Return("ComputePi", FloatValue(300))]
    /\ UNCHANGED <<loadVars, serverVars, srv, cruncher, frame>>

(* lines 20-21: return 3.14 *)
ComputePi(c) ==
    /\ Alive
    /\ frame[c].at = "idle"
    /\ HoldsCruncher(c)
    /\ ret' = [ret EXCEPT ![c] = Return("ComputePi", FloatValue(PiHundredths))]
    /\ UNCHANGED <<loadVars, serverVars, srv, cruncher, frame>>

Next ==
    \/ CheckVersion
    \/ GetModule
    \/ DefineNumberCruncher
    \/ DefineMyServerImpl
    \/ MainGuard
    \/ Main
    \/ Quit
    \/ \E c \in Clients : Activate(c)
    \/ \E c \in Clients : GetNumberCruncher(c)
    \/ \E c \in Clients : GetNumberCruncherReturn(c)
    \/ \E c \in Clients : \E client \in Clients : Subscribe(c, client)
    \/ \E c \in Clients : \E client \in Clients : Unsubscribe(c, client)
    \/ \E c \in Clients : ComputePi(c)

Spec == Init /\ [][Next]_vars

(***************************************************************************)
(* Properties.                                                             *)
(***************************************************************************)
Servers   == {o \in 1..Len(heap) : heap[o].cls = "MyServerImpl"}
Crunchers == {o \in 1..Len(heap) : heap[o].cls = "NumberCruncher"}
InFlight  == {c \in Clients : frame[c].at = "line 33"}

IsCruncherPointer(v) ==
    /\ v.kind = "pointer"
    /\ v.iid = "INumberCruncher"
    /\ v.obj \in Crunchers

(* C1: ComputePi returns the constant 3.14 on every NumberCruncher, after  *)
(* any calls made before it, without raising and without changing any     *)
(* state of the server: the objects, the registrations, the calls in       *)
(* progress and the pointers the clients hold all stay as they were.       *)
C1_ComputePiConstant ==
    /\ [](\A c \in Clients :
            ret[c].method = "ComputePi" =>
                /\ ret[c].value.kind = "float"
                /\ ret[c].value.hundredths = 314
                /\ ~ret[c].raised)
    /\ [][(\E c \in Clients : ComputePi(c)) =>
            UNCHANGED <<loadVars, serverVars, srv, cruncher, frame>>]_vars

(* ComputePi has answered two clients holding different NumberCrunchers,   *)
(* after every object the bound allows was created.                        *)
C1_Witness ==
    /\ Len(heap) = MaxObjects
    /\ \E c, d \in Clients :
        /\ c # d
        /\ ret[c].method = "ComputePi"
        /\ ret[d].method = "ComputePi"
        /\ cruncher[c].obj # cruncher[d].obj

(* C2, as stated: every method other than ComputePi is a no-op, so its     *)
(* call returns no object and no call ever creates one.                    *)
C2_AllOthersNoOps ==
    /\ \A c \in Clients :
        ret[c].method \in {"GetNumberCruncher", "Subscribe", "Unsubscribe"} =>
            ret[c].value = NoneValue
    /\ Crunchers = {}

(* C2, amended: Subscribe and Unsubscribe are no-ops, returning None and   *)
(* changing no state, while GetNumberCruncher is implemented: its first    *)
(* statement adds one NumberCruncher to the objects and its return hands   *)
(* an INumberCruncher pointer to a NumberCruncher to the caller.           *)
C2_OnlySubscribeUnsubscribeNoOps ==
    /\ [](\A c \in Clients :
            /\ ret[c].method \in {"Subscribe", "Unsubscribe"} =>
                 ret[c].value = NoneValue
            /\ ret[c].method = "GetNumberCruncher" =>
                 IsCruncherPointer(ret[c].value))
    /\ [][(\E c, k \in Clients : Subscribe(c, k) \/ Unsubscribe(c, k)) =>
            UNCHANGED <<loadVars, serverVars, srv, cruncher, frame>>]_vars
    /\ [][(\E c \in Clients : GetNumberCruncher(c)) =>
            /\ Len(heap') = Len(heap) + 1
            /\ heap'[Len(heap')].cls = "NumberCruncher"]_vars

(* one client's Subscribe and another's GetNumberCruncher have returned *)
C2_Witness ==
    \E c, d \in Clients :
        /\ ret[c].method \in {"Subscribe", "Unsubscribe"}
        /\ ret[d].method = "GetNumberCruncher"
        /\ ret[d].value.kind = "pointer"

(* C3: Subscribe and Unsubscribe are no-ops for every client and in every  *)
(* order: no server object ever records a subscriber, so the servers are   *)
(* always as they were created, and every completed Subscribe or           *)
(* Unsubscribe returned None without raising.                              *)
C3_SubscribeUnsubscribeNoOps ==
    /\ \A o \in Servers : heap[o] = NewObject(MyServerImpl)
    /\ \A o \in 1..Len(heap) : heap[o].dict = {}
    /\ \A c \in Clients :
        ret[c].method \in {"Subscribe", "Unsubscribe"} =>
            /\ ~ret[c].raised
            /\ ret[c].value = NoneValue

(* an Unsubscribe has completed on one server and a Subscribe on another *)
C3_Witness ==
    \E c, d \in Clients :
        /\ c # d
        /\ ret[c].method = "Unsubscribe"
        /\ ret[d].method = "Subscribe"
        /\ srv[c] # srv[d]

(* C4: the only registration step is one call UseCommandLine(MyServerImpl) *)
(* made when the module runs as the main script: at most one call is ever  *)
(* made, with MyServerImpl alone, never by an imported module; the         *)
(* registry changes only in the step of that call, class objects appear    *)
(* only in it, and an imported module leaves both untouched.               *)
C4_RegistrationOnlyInMain ==
    /\ [](/\ Len(calls) <= 1
          /\ \A i \in 1..Len(calls) : calls[i] = {"MyServerImpl"}
          /\ calls # <<>> => isMain
          /\ ~isMain => classObjects = {})
    /\ [][/\ registry' # registry => Len(calls') = Len(calls) + 1
          /\ ~(classObjects' \subseteq classObjects) =>
                 Len(calls') = Len(calls) + 1
          /\ ~isMain => UNCHANGED <<registry, classObjects, calls>>]_vars

(* the main script has registered the server, which was not registered *)
C4_Witness ==
    /\ isMain
    /\ pc = "exited"
    /\ calls = <<{"MyServerImpl"}>>
    /\ registry = {RegistryEntry(MyServerImpl)}
    /\ heap = <<>>

(* C5: in every interleaving of the clients' calls each completed call     *)
(* returned what it returns when run alone: ComputePi 3.14, Subscribe and  *)
(* Unsubscribe None, GetNumberCruncher a pointer to a NumberCruncher; and  *)
(* no two clients share an object: their servers differ, the               *)
(* NumberCrunchers they hold differ, and the calls in progress work on     *)
(* NumberCrunchers of their own.                                           *)
C5_InterleavingsAgree ==
    /\ \A c \in Clients :
        /\ ~ret[c].raised
        /\ ret[c].method = "ComputePi" => ret[c].value = FloatValue(314)
        /\ ret[c].method \in {"Subscribe", "Unsubscribe"} =>
             ret[c].value = NoneValue
        /\ ret[c].method = "GetNumberCruncher" => IsCruncherPointer(ret[c].value)
    /\ \A c, d \in Clients :
        c # d =>
            /\ srv[c] # 0 => srv[c] # srv[d]
            /\ cruncher[c].kind = "pointer" => cruncher[c].obj # cruncher[d].obj
            /\ c \in InFlight =>
                 /\ frame[c].obj # frame[d].obj
                 /\ frame[c].obj # cruncher[d].obj

(* a whole GetNumberCruncher call of one client ran between the two        *)
(* statements of another client's GetNumberCruncher call                   *)
C5_Witness ==
    \E c, d \in Clients :
        /\ c # d
        /\ c \in InFlight
        /\ ret[d].method = "GetNumberCruncher"
        /\ frame[c].obj < ret[d].value.obj

(* the version as one number, for releases of at most three parts below 100 *)
Weight(v) ==
    LET part(i) == IF i <= Len(v.release) THEN v.release[i] ELSE 0
    IN  part(1) * 10000 + part(2) * 100 + part(3)

Below149(v) == Weight(v) < 10409 \/ (Weight(v) = 10409 /\ v.pre)

(* C6: with a comtypes version below 1.4.9 the version check raises        *)
(* ImportError and nothing after it runs: the type library is not loaded,  *)
(* no class is defined, UseCommandLine is not called and no object is      *)
(* ever created; with 1.4.9 or newer the check raises nothing.             *)
C6_VersionGuard ==
    /\ Below149(version) /\ pc # "version_check" =>
        /\ pc = "ImportError"
        /\ MyInterfaces = 0
        /\ defined = {}
        /\ calls = <<>>
        /\ heap = <<>>
    /\ ~Below149(version) => pc # "ImportError"
    /\ pc \notin {"version_check", "ImportError", "GetModule"} => MyInterfaces = 1

(* the check has refused comtypes 1.4.8 *)
C6_Witness ==
    /\ pc = "ImportError"
    /\ version = Version(<<1, 4, 8>>, FALSE)

(* C7: every GetNumberCruncher call creates a NumberCruncher of its own    *)
(* and returns its INumberCruncher pointer: no object is returned twice,   *)
(* there is one NumberCruncher per call made, no server object and no      *)
(* finished call keeps a reference to it, and whoever holds the pointer    *)
(* can call ComputePi while the server lives.                              *)
C7_FreshCruncherPerCall ==
    /\ \A o \in ObjIds : returned[o] <= 1
    /\ \A o \in ObjIds : returned[o] = 1 => o \in Crunchers
    /\ Cardinality(Crunchers) =
         Cardinality({o \in ObjIds : returned[o] = 1}) + Cardinality(InFlight)
    /\ \A o \in Servers : heap[o].dict = {}
    /\ \A c \in Clients :
        /\ c \notin InFlight => frame[c].obj = 0
        /\ ret[c].method = "GetNumberCruncher" =>
             /\ IsCruncherPointer(ret[c].value)
             /\ returned[ret[c].value.obj] = 1
             /\ cruncher[c] = ret[c].value
        /\ (cruncher[c].kind = "pointer" /\ Alive /\ c \notin InFlight) =>
             ENABLED ComputePi(c)

(* one client has received two different NumberCrunchers in two calls,    *)
(* no other client any, and the later one has answered ComputePi           *)
C7_Witness ==
    \E c \in Clients :
        /\ ret[c].method = "ComputePi"
        /\ returned[cruncher[c].obj] = 1
        /\ \A d \in Clients \ {c} : cruncher[d].kind # "pointer"
        /\ \E o \in Crunchers :
             o < cruncher[c].obj /\ returned[o] = 1

(* C8: the only class ever registered is MyServerImpl, as a local server   *)
(* with multiple-use class objects: UseCommandLine receives MyServerImpl   *)
(* alone, every registry entry and class object is MyServerImpl's, and     *)
(* every NumberCruncher that exists, or that a client holds, came out of   *)
(* a GetNumberCruncher call.                                               *)
C8_OnlyMyServerImplRegistered ==
    /\ \A i \in 1..Len(calls) : calls[i] = {"MyServerImpl"}
    /\ \A e \in registry :
        e = [cls |-> "MyServerImpl", key |-> "LocalServer32", threading |-> "Both"]
    /\ \A co \in classObjects :
        co = [cls |-> "MyServerImpl", clsctx |-> "CLSCTX_LOCAL_SERVER",
              regcls |-> "REGCLS_MULTIPLEUSE"]
    /\ pc = "serving" => classObjects # {}
    /\ \A o \in Crunchers :
        returned[o] >= 1 \/ \E c \in InFlight : frame[c].obj = o
    /\ \A c \in Clients :
        cruncher[c].kind = "pointer" =>
            /\ cruncher[c].obj \in Crunchers
            /\ returned[cruncher[c].obj] >= 1

(* the running server has activated MyServerImpl for two clients and one   *)
(* of them holds a NumberCruncher                                          *)
C8_Witness ==
    /\ pc = "serving"
    /\ \A c \in Clients : srv[c] # 0
    /\ \E c \in Clients : cruncher[c].kind = "pointer"

=============================================================================
